---- MODULE Spec2Model ----
(***************************************************************************)
(* Autometa, autometa/binning/recursive_dbscan.py: binning of contigs by   *)
(* a sweep of the DBSCAN radius, scored with single-copy marker genes.     *)
(*                                                                         *)
(* One behaviour is one call of binning(master, markers, ...).  The steps  *)
(* are the bodies of the loops of binning, get_clusters and                *)
(* recursive_dbscan.  A DataFrame is a record [rows, cols]: rows is the    *)
(* sequence of its rows in index order, each row a record [contig,         *)
(* cluster, completeness, purity]; cols is the set of the columns          *)
(* 'cluster', 'completeness', 'purity' (and 'cluster_x', 'cluster_y')      *)
(* that the frame carries.  A field whose column is absent holds NA.       *)
(*                                                                         *)
(* Lengths are in hundredths (eps = 0.3 is 30).  Percentages are exact     *)
(* fractions <<numerator, denominator>>.  The point coordinates are chosen *)
(* so that no distance between two points is a radius the sweep visits.    *)
(* Only the fixed-radius method (sklearn DBSCAN, min_samples = 1) is       *)
(* modelled as a clustering; HDBSCAN is not an input of the model.         *)
(*                                                                         *)
(* autometa/common/external/hmmer.py: a call of hmmscan(orfs, hmmdb,       *)
(* outfpath, ...) is modelled with the part of the file system it touches: *)
(* outfpath, the temporary directory and its files.  A file is known by    *)
(* its size only, "empty" or "full".                                       *)
(***************************************************************************)
EXTENDS Integers, Sequences, FiniteSets, TLC

VARIABLES
    master,             \* binning(master): contig -> [pt, taxa]
    markers,            \* binning(markers): contig of the marker table -> marker -> count
    params,             \* domain, completeness, purity, taxonomy, method, reverse
    pc,                 \* position of the call
    exc,                \* the exception that ended the call, or "none"
    result,             \* the DataFrame binning returned
    ranks,              \* binning: ranks still to iterate (head = current)
    groups,             \* binning: rank values of the current rank still to visit
    clustered_contigs,  \* binning: set of contigs already given a bin
    num_clusters,       \* binning: running count of bins
    clusters,           \* binning: list of accepted fragments
    gc_master,          \* get_clusters: master_df of the current round
    gc_num_clusters,    \* get_clusters: num_clusters
    gc_clusters,        \* get_clusters: clusters
    table,              \* recursive_dbscan: table
    eps,                \* recursive_dbscan: eps
    step,               \* recursive_dbscan: step
    clustering_rounds,  \* recursive_dbscan: cluster count -> rounds
    n_clusters,         \* recursive_dbscan: n_clusters ("inf" before the first pass)
    best_median,        \* recursive_dbscan: best_median
    best_df,            \* recursive_dbscan: best_df
    log,                \* history: the calls, the passes and the accepted clusters
    args,               \* hmmscan: force, parallel, log
    fs,                 \* hmmscan: outfpath and the temporary directory on disk
    fs_before,          \* history: the file system when hmmscan was called
    cmd,                \* hmmscan: cmd
    proc,               \* hmmscan: <<proc.returncode>>, or <<>> before the run
    h_pc,               \* hmmscan: position of the call
    h_exc,              \* hmmscan: the exception that ended the call, or "none"
    h_result            \* hmmscan: the value returned

hmmVars == <<args, fs, fs_before, cmd, proc, h_pc, h_exc, h_result>>

vars == <<master, markers, params, pc, exc, result, ranks, groups,
          clustered_contigs, num_clusters, clusters, gc_master,
          gc_num_clusters, gc_clusters, table, eps, step, clustering_rounds,
          n_clusters, best_median, best_df, log, hmmVars>>

-----------------------------------------------------------------------------
(* Bounds of the model *)

MaxContigs == 4
MaxFar == 3
MaxFair == 2

-----------------------------------------------------------------------------
(* Program constants *)

EpsStart == 30
StepStart == 10
StepFactor == 10
PlateauRounds == 10
GiveUpRounds == 10
ExpectedBacteria == 139
ExpectedArchaea == 162
BinDigits == 4

\* pd.NA in a numeric column, and pd.NA in the cluster column
NA == <<"NA">>
NoCluster == "<NA>"
NaN == <<"nan">>
NegInf == <<"-inf">>
Inf == <<"inf">>

AllCols == {"cluster", "purity", "completeness"}
EmptyFrame == [rows |-> <<>>, cols |-> {}]

-----------------------------------------------------------------------------
(* Sequences and sets *)

Range(s) == {s[i] : i \in DOMAIN s}

Min(S) == CHOOSE a \in S : \A b \in S : a <= b

\* The sequence s as an explicit tuple: every element is evaluated once.
Tuple(s) == SelectSeq(s, LAMBDA r : TRUE)

Index(frame) == {frame.rows[i].contig : i \in DOMAIN frame.rows}

\* The sum of f[a] over a in S, for a function f.
RECURSIVE SetSum(_, _)
SetSum(S, f) ==
    IF S = {} THEN 0
    ELSE LET a == CHOOSE b \in S : TRUE IN f[a] + SetSum(S \ {a}, f)

\* The elements of a set of contigs in index order.
RECURSIVE Sorted(_)
Sorted(S) ==
    IF S = {} THEN <<>>
    ELSE LET a == Min(S) IN <<a>> \o Sorted(S \ {a})

\* The distinct values of a column in order of first appearance (Series.unique).
RECURSIVE Unique(_)
Unique(s) ==
    IF s = <<>> THEN <<>>
    ELSE LET u == Unique(SubSeq(s, 1, Len(s) - 1))
         IN IF s[Len(s)] \in Range(u) THEN u ELSE Append(u, s[Len(s)])

RECURSIVE Concat(_)
Concat(frames) ==
    IF frames = <<>> THEN <<>>
    ELSE frames[1] \o Concat(Tail(frames))

-----------------------------------------------------------------------------
(* Fractions <<numerator, denominator>>, denominator > 0 *)

IsNum(v) == Len(v) = 2

\* v >= c for a number c; a comparison with NA is False (pandas object column)
GeqCutoff(v, c) == IsNum(v) /\ v[1] >= c * v[2]

FracGeq(a, b) == a[1] * b[2] >= b[1] * a[2]
-----------------------------------------------------------------------------
(* Inputs: feature points (hundredths), marker rows, lineages *)

MarkerColumns == {"m1", "m2"}

Point(a, b, c) == [x |-> a, y |-> b, third |-> c]

\* Three places on a line: 0.35 apart, and 1.05 / 1.40 away.
PointCoords == <<Point(0, 0, 0), Point(35, 0, 0), Point(140, 0, 0)>>

\* The marker counts of a contig; listed says whether the marker table has a
\* row for the contig at all.
MarkerRow(listed, n1, n2) ==
    [listed |-> listed, counts |-> [m \in MarkerColumns |-> IF m = "m1" THEN n1 ELSE n2]]

MarkerRows == <<MarkerRow(FALSE, 0, 0), MarkerRow(TRUE, 1, 0), MarkerRow(TRUE, 0, 1)>>

CANONICAL_RANKS ==
    <<"species", "genus", "family", "order", "class", "phylum",
      "superkingdom", "root">>

RankNames == Range(CANONICAL_RANKS)

Lineage(sk, ph) ==
    [r \in RankNames |->
        CASE r = "root" -> "root"
          [] r = "superkingdom" -> sk
          [] r = "phylum" -> ph
          [] OTHER -> "unclassified"]

Lineages ==
    << Lineage("bacteria", "firmicutes"),
       Lineage("bacteria", "proteobacteria"),
       Lineage("unclassified", "unclassified") >>

\* A total order on the rank values, as groupby sorts its keys.
TaxonOrder == <<"bacteria", "firmicutes", "proteobacteria", "root", "unclassified">>

TaxonPos(v) == CHOOSE i \in DOMAIN TaxonOrder : TaxonOrder[i] = v

-----------------------------------------------------------------------------
(* run_dbscan *)

Sq(a) == a * a

Dist2(p, q) == Sq(p.x - q.x) + Sq(p.y - q.y) + Sq(p.third - q.third)

\* sklearn DBSCAN(eps, min_samples=1): every point is a core point, a cluster
\* is a connected component of the graph of the pairs at distance <= eps.
RECURSIVE Reach(_, _, _)
Reach(ids, e, S) ==
    LET T == S \cup {j \in ids : \E i \in S :
                        Dist2(master[i].pt, master[j].pt) <= Sq(e)}
    IN IF T = S THEN S ELSE Reach(ids, e, T)

\* Labels 0, 1, ... in the order in which the rows first meet each cluster.
DBSCANLabels(ids, e) ==
    LET order == Sorted(ids)
        first == Tuple([k \in DOMAIN order |-> Min(Reach(ids, e, {order[k]}))])
        label == Tuple([k \in DOMAIN order |->
                     ToString(Cardinality({first[j] : j \in {h \in DOMAIN order :
                                                               first[h] < first[k]}}))])
    IN [i \in ids |-> label[CHOOSE k \in DOMAIN order : order[k] = i]]

run_dbscan(df, e, method) ==
    IF Len(df.rows) = 1
    THEN \* merge(df, clusters): a 'cluster' column already in df is suffixed
         IF "cluster" \in df.cols
         THEN [exc |-> "none", rows |-> df.rows,
               cols |-> (df.cols \ {"cluster"}) \cup {"cluster_x", "cluster_y"},
               inplace |-> df.cols]
         ELSE [exc |-> "none",
               rows |-> Tuple([i \in DOMAIN df.rows |->
                                  [df.rows[i] EXCEPT !.cluster = NoCluster]]),
               cols |-> df.cols \cup {"cluster"},
               inplace |-> df.cols]
    ELSE IF method = "DBSCAN"
    THEN LET labels == DBSCANLabels(Index(df), e)
         IN [exc |-> "none",
             rows |-> Tuple([i \in DOMAIN df.rows |->
                                [contig |-> df.rows[i].contig,
                                 cluster |-> labels[df.rows[i].contig],
                                 completeness |-> NA, purity |-> NA]]),
             cols |-> {"cluster"},
             inplace |-> df.cols \ AllCols]
    ELSE [exc |-> "ValueError", rows |-> <<>>, cols |-> {},
          inplace |-> df.cols \ AllCols]

-----------------------------------------------------------------------------
(* add_metrics *)

Lower(domain) ==
    CASE domain = "Archaea" -> "archaea"
      [] domain = "Bacteria" -> "bacteria"
      [] OTHER -> domain

\* The expected number of the bacterial set for every domain.
ExpectedNumberOfBacteria(domain) == ExpectedBacteria

ExpectedNumber(domain) ==
    CASE Lower(domain) = "bacteria" -> ExpectedBacteria
      [] Lower(domain) = "archaea" -> ExpectedArchaea
      [] OTHER -> ExpectedBacteria

SummedMarkers(contigs) ==
    [m \in MarkerColumns |->
        SetSum(contigs \cap DOMAIN markers, [c \in DOMAIN markers |-> markers[c][m]])]

NUniqueMarkers(contigs) ==
    Cardinality({m \in MarkerColumns : SummedMarkers(contigs)[m] >= 1})

NumSingleCopyMarkers(contigs) ==
    Cardinality({m \in MarkerColumns : SummedMarkers(contigs)[m] = 1})

Completeness(contigs, domain) ==
    <<100 * NUniqueMarkers(contigs), ExpectedNumber(domain)>>

\* The purity without the guard of lines 229-230.
PurityUnguarded(contigs) ==
    <<100 * NumSingleCopyMarkers(contigs), NUniqueMarkers(contigs)>>

Purity(contigs) ==
    IF NUniqueMarkers(contigs) = 0 THEN NA
    ELSE <<100 * NumSingleCopyMarkers(contigs), NUniqueMarkers(contigs)>>

Members(rows, c) == {rows[i].contig : i \in {k \in DOMAIN rows : rows[k].cluster = c}}

\* groupby('cluster') drops the rows whose cluster is NA, and the merge on
\* 'cluster' is an inner one.
add_metrics(df, domain) ==
    IF "cluster" \notin df.cols
    THEN [exc |-> "KeyError", rows |-> <<>>, cols |-> {}]
    ELSE LET kept == SelectSeq(df.rows, LAMBDA r : r.cluster # NoCluster)
         IN [exc |-> "none",
             rows |-> Tuple([i \in DOMAIN kept |->
                                [kept[i] EXCEPT
                                    !.completeness =
                                        Completeness(Members(kept, kept[i].cluster), domain),
                                    !.purity = Purity(Members(kept, kept[i].cluster))]]),
             cols |-> df.cols \cup {"completeness", "purity"}]
-----------------------------------------------------------------------------
(* recursive_dbscan *)

\* The completeness filter alone.
PassesCompleteness(r) == GeqCutoff(r.completeness, params.completeness)

Passes(r) ==
    /\ GeqCutoff(r.completeness, params.completeness)
    /\ GeqCutoff(r.purity, params.purity)

\* Series.median of fractions of one denominator; NaN for an empty Series.
Median(vals) ==
    IF vals = <<>> THEN NaN
    ELSE LET n == Len(vals)
             num == Tuple([i \in DOMAIN vals |-> vals[i][1]])
             Kth(k) == CHOOSE v \in Range(num) :
                          /\ Cardinality({i \in DOMAIN num : num[i] < v}) < k
                          /\ k <= Cardinality({i \in DOMAIN num : num[i] <= v})
         IN IF n % 2 = 1
            THEN <<Kth((n + 1) \div 2), vals[1][2]>>
            ELSE <<Kth(n \div 2) + Kth(n \div 2 + 1), 2 * vals[1][2]>>

MedianCompleteness(df) ==
    LET passing == SelectSeq(df.rows, Passes)
    IN Median(Tuple([i \in DOMAIN passing |-> passing[i].completeness]))

\* A comparison with > in place of >=.
ImprovesStrictly(median, best) ==
    /\ median # NaN
    /\ best = NegInf \/ median[1] * best[2] > best[1] * median[2]

\* median_completeness >= best_median; a comparison with NaN is False
Improves(median, best) ==
    /\ median # NaN
    /\ best = NegInf \/ FracGeq(median, best)

\* The number of rows in place of the number of labels.
NUniqueRows(rows) == Len(rows)

NUnique(rows) == Cardinality({rows[i].cluster : i \in DOMAIN rows} \ {NoCluster})

Bump(rounds, n) ==
    IF n \in DOMAIN rounds THEN [rounds EXCEPT ![n] = @ + 1]
    ELSE rounds @@ (n :> 1)

\* A step multiplied from the tenth round of a count on.
AccelerateFromTen(rounds, s) ==
    IF rounds >= PlateauRounds THEN s * StepFactor ELSE s

\* lines 117-118: the step after a count of clusters was produced rounds times
Accelerate(rounds, s) ==
    IF rounds > PlateauRounds THEN s * StepFactor ELSE s

\* A loop that goes on as long as there is a cluster at all.
ContinuesAboveZero(n) == n > 0

\* line 101: while n_clusters > 1
Continues(n) == n > 1

\* One pass of the while loop, lines 102-128, on a scored partition df.
SweepPass(df) ==
    LET median == MedianCompleteness(df)
        better == Improves(median, best_median)
        n == NUnique(df.rows)
        rounds1 == Bump(clustering_rounds, n)
        step1 == Accelerate(rounds1[n], step)
        rounds2 == IF median # NaN /\ median[1] = 0
                   THEN [rounds1 EXCEPT ![0] = @ + 1] ELSE rounds1
        giveup == rounds2[0] >= GiveUpRounds
    IN [best_median |-> IF better THEN median ELSE best_median,
        best_df |-> IF better THEN df ELSE best_df,
        n_clusters |-> n,
        clustering_rounds |-> rounds2,
        step |-> step1,
        eps |-> IF giveup THEN eps ELSE eps + step1,
        median |-> median,
        scored |-> df,
        stop |-> giveup \/ ~Continues(n)]

\* A return of best_df for both tables when nothing was retained.
SweepResultOfBest ==
    IF best_df.rows = <<>>
    THEN [clustered |-> EmptyFrame, unclustered |-> EmptyFrame]
    ELSE [clustered |-> best_df, unclustered |-> EmptyFrame]

\* A residual that is the whole input table of the sweep.
SweepResultWithInput ==
    IF best_df.rows = <<>>
    THEN [clustered |-> EmptyFrame, unclustered |-> table]
    ELSE [clustered |-> [rows |-> SelectSeq(best_df.rows, Passes), cols |-> best_df.cols],
          unclustered |-> best_df]

\* The pair recursive_dbscan returns, lines 129-141.
SweepResult ==
    IF best_df.rows = <<>>
    THEN [clustered |-> EmptyFrame, unclustered |-> table]
    ELSE LET accepted == SelectSeq(best_df.rows, Passes)
             taken == {accepted[i].contig : i \in DOMAIN accepted}
         IN [clustered |-> [rows |-> accepted, cols |-> best_df.cols],
             unclustered |->
                 [rows |-> SelectSeq(best_df.rows, LAMBDA r : r.contig \notin taken),
                  cols |-> best_df.cols]]

-----------------------------------------------------------------------------
(* Bin names *)

ZeroPad(s, width) ==
    IF Len(s) >= width THEN s
    ELSE SubSeq("0000000000", 1, width - Len(s)) \o s

\* f'bin_{n}'
BinNameUnpadded(n) == "bin_" \o ToString(n)

\* f'bin_{n:04d}'
BinName(n) == "bin_" \o ZeroPad(ToString(n), BinDigits)

\* A translation that numbers every fragment from 1.
RenameFromOne(rows, issued) ==
    LET names == Unique(Tuple([i \in DOMAIN rows |-> rows[i].cluster]))
        pos(c) == CHOOSE i \in DOMAIN names : names[i] = c
    IN Tuple([i \in DOMAIN rows |->
                 [rows[i] EXCEPT !.cluster = BinName(pos(rows[i].cluster))]])

\* The translation of lines 286-289 and 407-410 applied to a fragment.
Rename(rows, issued) ==
    LET names == Unique(Tuple([i \in DOMAIN rows |-> rows[i].cluster]))
        pos(c) == CHOOSE i \in DOMAIN names : names[i] = c
    IN Tuple([i \in DOMAIN rows |->
                 [rows[i] EXCEPT
                     !.cluster = BinName(1 + (pos(rows[i].cluster) - 1) + issued)]])

BlankRow(c) == [contig |-> c, cluster |-> NoCluster, completeness |-> NA, purity |-> NA]

Frame(contigs) ==
    LET order == Sorted(contigs)
    IN [rows |-> Tuple([i \in DOMAIN order |-> BlankRow(order[i])]), cols |-> {}]

\* assign(cluster=pd.NA)
Unassign(df) ==
    [rows |-> Tuple([i \in DOMAIN df.rows |-> [df.rows[i] EXCEPT !.cluster = NoCluster]]),
     cols |-> df.cols \cup {"cluster"}]

\* A frame whose dropped columns keep their values.
KeepValues(df, cols) == [rows |-> df.rows, cols |-> cols]

\* Dropping columns of a frame in place.
Keep(df, cols) ==
    [rows |-> Tuple([i \in DOMAIN df.rows |->
                  [contig |-> df.rows[i].contig,
                   cluster |-> IF "cluster" \in cols THEN df.rows[i].cluster ELSE NoCluster,
                   completeness |->
                       IF "completeness" \in cols THEN df.rows[i].completeness ELSE NA,
                   purity |-> IF "purity" \in cols THEN df.rows[i].purity ELSE NA]]),
     cols |-> cols]
-----------------------------------------------------------------------------
(* The inputs of one call *)

Domains == {"bacteria", "Archaea", "viruses"}
Cutoffs == {<<1, 90>>, <<0, 0>>}
Methods == {"DBSCAN", "KMEANS"}

\* A contig of the input: indices into PointCoords, MarkerRows and Lineages.
\* Without taxonomy the lineage is not read; with taxonomy the contigs lie at
\* the first two points.
Kinds(taxonomy) ==
    IF taxonomy
    THEN {<<p, m, l>> : p \in 1..2, m \in 1..3, l \in 1..3}
    ELSE {<<p, m, 3>> : p \in 1..3, m \in 1..3}

KindKey(k) == (k[1] * 10 + k[2]) * 10 + k[3]

\* The input tables list their contigs in a fixed order of kind.
KeyOrdered(f, i, j) == KindKey(f[i]) <= KindKey(f[j])

Inputs(taxonomy) ==
    UNION {{f \in [1..n -> Kinds(taxonomy)] :
               \A i \in 1..n : \A j \in 1..n : i < j => KeyOrdered(f, i, j)}
           : n \in 1..MaxContigs}

\* The calls: every choice of cutoffs and method without taxonomy, for the
\* two domains of marker_sets, and a domain that is not in marker_sets at the
\* cutoffs <<1, 90>>; with taxonomy, both directions at the cutoffs <<1, 90>>.
Calls ==
    {c \in [domain : Domains, completeness : {0, 1}, purity : {0, 90},
            taxonomy : BOOLEAN, method : Methods, reverse : BOOLEAN] :
        /\ <<c.completeness, c.purity>> \in Cutoffs
        /\ ~c.taxonomy => c.reverse
        /\ c.taxonomy => c.completeness = 1 /\ c.domain = "bacteria"
        /\ c.domain = "viruses" => c.completeness = 1
        /\ c.method = "KMEANS" => c.completeness = 1 /\ c.reverse /\ c.domain = "bacteria"}

NoSweep ==
    /\ table = EmptyFrame
    /\ eps = EpsStart
    /\ step = StepStart
    /\ clustering_rounds = (0 :> 0)
    /\ n_clusters = Inf
    /\ best_median = NegInf
    /\ best_df = EmptyFrame

\* The marker table of an input: the rows of the listed contigs and, when
\* none is listed, possibly the row of a contig (0) that is not in master.
MarkerTables(f) ==
    LET listed == {k \in DOMAIN f : MarkerRows[f[k][2]].listed}
        own == [i \in listed |-> MarkerRows[f[i][2]].counts]
    IN IF listed = {} THEN {own, 0 :> MarkerRows[2].counts} ELSE {own}

\* No file on disk and no call of hmmscan.
NoFiles == [outfpath |-> "missing", tmp_dirpath |-> FALSE, tmp_fpaths |-> <<>>]

NoScan ==
    /\ args = [force |-> FALSE, parallel |-> TRUE, log |-> "None"]
    /\ fs = NoFiles
    /\ fs_before = NoFiles
    /\ cmd = <<>>
    /\ proc = <<>>
    /\ h_pc = "idle"
    /\ h_exc = "none"
    /\ h_result = "None"

\* The locals of binning before its first statement.
Fresh ==
    /\ exc = "none"
    /\ result = <<>>
    /\ ranks = <<>>
    /\ groups = <<>>
    /\ clustered_contigs = {}
    /\ num_clusters = 0
    /\ clusters = <<>>
    /\ gc_master = EmptyFrame
    /\ gc_num_clusters = 0
    /\ gc_clusters = <<>>
    /\ NoSweep
    /\ log = <<>>

\* The state of a call of binning before its first statement.
Called ==
    /\ pc = "binning"
    /\ Fresh
    /\ NoScan

Init ==
    /\ params \in Calls
    /\ \E f \in Inputs(params.taxonomy) :
          /\ master = [i \in DOMAIN f |->
                          [pt |-> PointCoords[f[i][1]], taxa |-> Lineages[f[i][3]]]]
          /\ markers \in MarkerTables(f)
    /\ Called

\* Inputs with a distant contig: the third place is 2.65 away from the second,
\* so that a sweep stays at two clusters for more than ten passes.
FarCoords == <<Point(0, 0, 0), Point(35, 0, 0), Point(300, 0, 0)>>

FarInputs(taxonomy, max) ==
    UNION {{f \in [1..n -> Kinds(taxonomy)] :
               \A i \in 1..n : \A j \in 1..n : i < j => KeyOrdered(f, i, j)}
           : n \in 1..max}

FarCall(max) ==
    /\ params \in Calls
    /\ \E f \in FarInputs(params.taxonomy, max) :
          /\ master = [i \in DOMAIN f |->
                          [pt |-> FarCoords[f[i][1]], taxa |-> Lineages[f[i][3]]]]
          /\ markers \in MarkerTables(f)
    /\ Called

FarInit == FarCall(MaxFar)

FairInit == FarCall(MaxFair)

-----------------------------------------------------------------------------
(* Steps *)

binningVars == <<ranks, groups, clustered_contigs, num_clusters, clusters>>
gcVars == <<gc_master, gc_num_clusters, gc_clusters>>
sweepVars == <<table, eps, step, clustering_rounds, n_clusters, best_median, best_df>>
inputVars == <<master, markers, params>>

Raise(e) ==
    /\ pc' = "raised"
    /\ exc' = e

Reversed(s) == Tuple([i \in DOMAIN s |-> s[Len(s) + 1 - i]])

\* lines 363-369
\* The ranks without ranks.remove('root').
RankListWithRoot ==
    IF params.reverse THEN Reversed(CANONICAL_RANKS) ELSE CANONICAL_RANKS

RankList ==
    SelectSeq(IF params.reverse THEN Reversed(CANONICAL_RANKS) ELSE CANONICAL_RANKS,
              LAMBDA r : r # "root")

Event(op, rank, name, contigs) ==
    [op |-> op, rank |-> rank, name |-> name, contigs |-> contigs]

\* line 348: master.loc[master.index.isin(markers.index)].empty
NoMarkersUnchecked == FALSE

NoMarkers == DOMAIN master \cap DOMAIN markers = {}

\* binning, lines 347-372: the marker check, then the choice of the path.
Binning ==
    /\ pc = "binning"
    /\ IF NoMarkers
       THEN /\ Raise("RecursiveDBSCANError")
            /\ UNCHANGED <<binningVars, gcVars, log>>
       ELSE IF ~params.taxonomy
       THEN /\ pc' = "get_clusters"
            /\ gc_master' = Frame(DOMAIN master)
            /\ gc_num_clusters' = 0
            /\ gc_clusters' = <<>>
            /\ log' = Append(log, Event("get_clusters", "", "", DOMAIN master))
            /\ UNCHANGED <<binningVars, exc>>
       ELSE /\ pc' = "rank"
            /\ ranks' = RankList
            /\ clustered_contigs' = {}
            /\ num_clusters' = 0
            /\ clusters' = <<>>
            /\ UNCHANGED <<groups, gcVars, exc, log>>
    /\ UNCHANGED <<inputVars, hmmVars, sweepVars, result>>

\* The keys of master.groupby(rank), the value 'unclassified' among them.
GroupNamesUnfiltered(rank) ==
    LET names == {master[c].taxa[rank] : c \in DOMAIN master}
        pos == {TaxonPos(v) : v \in names}
        order == Sorted(pos)
    IN Tuple([i \in DOMAIN order |-> TaxonOrder[order[i]]])

\* The keys of master.loc[unclassified_filter].groupby(rank), sorted.
GroupNames(rank) ==
    LET names == {master[c].taxa[rank] : c \in DOMAIN master} \ {"unclassified"}
        pos == {TaxonPos(v) : v \in names}
        order == Sorted(pos)
    IN Tuple([i \in DOMAIN order |-> TaxonOrder[order[i]]])

Grouped(names) ==
    /\ groups' = names
    /\ IF names = <<>>
       THEN ranks' = Tail(ranks) /\ pc' = "rank"
       ELSE ranks' = ranks /\ pc' = "group"

\* for rank in ranks, lines 373-380; a rank without groups is left at once
ForRank ==
    /\ pc = "rank"
    /\ ranks # <<>>
    /\ Grouped(GroupNames(Head(ranks)))
    /\ log' = Append(log, Event("rank", Head(ranks), "", {}))
    /\ UNCHANGED <<inputVars, hmmVars, sweepVars, gcVars, result, exc,
                   clustered_contigs, num_clusters, clusters>>

\* The end of one pass of the loop over the groups: the next group, or the
\* next rank after the last group of a rank.
EndGroup ==
    /\ groups' = Tail(groups)
    /\ IF Tail(groups) = <<>>
       THEN ranks' = Tail(ranks) /\ pc' = "rank"
       ELSE ranks' = ranks /\ pc' = "group"

\* The whole group, the contigs that have a bin included.
RankDfWhole(rank, name) == {c \in DOMAIN master : master[c].taxa[rank] = name}

\* All the contigs not yet given a bin, of whatever group.
RankDfOfAll(rank, name) == DOMAIN master \ clustered_contigs

\* lines 386-388: the contigs of the group not yet given a bin
RankDf(rank, name) ==
    {c \in DOMAIN master : master[c].taxa[rank] = name} \ clustered_contigs

Group(rank_df) ==
    IF Cardinality(rank_df) <= 1
    THEN /\ EndGroup
         /\ UNCHANGED <<gcVars, log>>
    ELSE /\ pc' = "get_clusters"
         /\ gc_master' = Frame(rank_df)
         /\ gc_num_clusters' = 0
         /\ gc_clusters' = <<>>
         /\ log' = Append(log, Event("get_clusters", Head(ranks), Head(groups), rank_df))
         /\ UNCHANGED <<ranks, groups>>

\* for rank_name_txt, dff in ...groupby(rank), lines 380-400
ForGroup ==
    /\ pc = "group"
    /\ Group(RankDf(Head(ranks), Head(groups)))
    /\ UNCHANGED <<inputVars, hmmVars, sweepVars, result, exc, clustered_contigs,
                   num_clusters, clusters>>

\* get_clusters, lines 270-278, and recursive_dbscan, lines 95-100
RecursiveDbscan ==
    /\ pc = "get_clusters"
    /\ table' = gc_master
    /\ eps' = EpsStart
    /\ step' = StepStart
    /\ clustering_rounds' = (0 :> 0)
    /\ n_clusters' = Inf
    /\ best_median' = NegInf
    /\ best_df' = EmptyFrame
    /\ pc' = "recursive_dbscan"
    /\ log' = Append(log, Event("recursive_dbscan", "", "", Index(gc_master)))
    /\ UNCHANGED <<inputVars, hmmVars, binningVars, gcVars, result, exc>>

\* History: one pass of the while loop, its radius, the scored partition and
\* the median completeness of the rows that pass the cutoffs.
PassEvent(radius, new) ==
    [op |-> "pass", rank |-> "", name |-> "", contigs |-> Index(new.scored),
     eps |-> radius, median |-> new.median, rows |-> new.scored.rows]

\* The end of one pass: the new values of the locals of recursive_dbscan.
EndPass(new) ==
    /\ log' = Append(log, PassEvent(eps, new))
    /\ eps' = new.eps
    /\ step' = new.step
    /\ clustering_rounds' = new.clustering_rounds
    /\ n_clusters' = new.n_clusters
    /\ best_median' = new.best_median
    /\ best_df' = new.best_df
    /\ pc' = IF new.stop THEN "sweep_done" ELSE "recursive_dbscan"
    /\ exc' = exc

Scored(binned, scored) ==
    /\ table' = Keep(table, binned.inplace)
    /\ IF binned.exc # "none"
       THEN /\ Raise(binned.exc)
            /\ UNCHANGED <<eps, step, clustering_rounds, n_clusters, best_median, best_df, log>>
       ELSE IF scored.exc # "none"
       THEN /\ Raise(scored.exc)
            /\ UNCHANGED <<eps, step, clustering_rounds, n_clusters, best_median, best_df, log>>
       ELSE \E new \in {SweepPass([rows |-> scored.rows, cols |-> scored.cols])} :
               EndPass(new)

Binned(binned) == \E scored \in {add_metrics(binned, params.domain)} : Scored(binned, scored)

\* recursive_dbscan, one pass of the while loop, lines 101-128
SweepIter ==
    /\ pc = "recursive_dbscan"
    /\ \E binned \in {run_dbscan(table, eps, params.method)} : Binned(binned)
    /\ UNCHANGED <<inputVars, hmmVars, binningVars, gcVars, result>>

\* History: the clusters a sweep returned as accepted, one event each.
AcceptEvents(rows) ==
    LET names == Unique(Tuple([i \in DOMAIN rows |-> rows[i].cluster]))
        first(c) == CHOOSE i \in DOMAIN rows : rows[i].cluster = c
    IN Tuple([k \in DOMAIN names |->
                 [op |-> "accept", rank |-> "", name |-> names[k],
                  contigs |-> Members(rows, names[k]),
                  completeness |-> rows[first(names[k])].completeness,
                  purity |-> rows[first(names[k])].purity]])

Accepted(res, renamed) ==
    IF res.clustered.rows = <<>>
    THEN /\ gc_clusters' = Append(gc_clusters, Unassign(res.unclustered).rows)
         /\ pc' = "gc_return"
         /\ UNCHANGED <<gc_master, gc_num_clusters, log>>
    ELSE IF res.unclustered.rows = <<>>
    THEN /\ gc_clusters' = Append(gc_clusters, renamed)
         /\ pc' = "gc_return"
         /\ log' = log \o AcceptEvents(res.clustered.rows)
         /\ UNCHANGED <<gc_master, gc_num_clusters>>
    ELSE /\ gc_num_clusters' = gc_num_clusters + NUnique(renamed)
         /\ gc_clusters' = Append(gc_clusters, renamed)
         /\ gc_master' = res.unclustered
         /\ pc' = "get_clusters"
         /\ log' = log \o AcceptEvents(res.clustered.rows)

Returned(res) ==
    \E renamed \in {Rename(res.clustered.rows, gc_num_clusters)} : Accepted(res, renamed)

\* recursive_dbscan returns; get_clusters, lines 279-299
GetClustersRound ==
    /\ pc = "sweep_done"
    /\ \E res \in {SweepResult} : Returned(res)
    /\ UNCHANGED <<inputVars, hmmVars, binningVars, sweepVars, result, exc>>

Store(clusters_df, clustered) ==
    IF ~params.taxonomy
    THEN /\ result' = clusters_df
         /\ pc' = "returned"
         /\ UNCHANGED binningVars
    ELSE IF clustered = <<>>
    THEN /\ EndGroup
         /\ UNCHANGED <<result, clustered_contigs, num_clusters, clusters>>
    ELSE /\ clustered_contigs' =
                clustered_contigs \cup {clustered[i].contig : i \in DOMAIN clustered}
         /\ clusters' = Append(clusters, Rename(clustered, num_clusters))
         /\ num_clusters' = num_clusters + NUnique(clustered)
         /\ EndGroup
         /\ UNCHANGED result

Concatenated(clusters_df) ==
    Store(clusters_df, SelectSeq(clusters_df, LAMBDA r : r.cluster # NoCluster))

\* get_clusters returns, line 300; binning, line 353 or lines 401-412
GetClustersReturn ==
    /\ pc = "gc_return"
    /\ Concatenated(Concat(gc_clusters))
    /\ UNCHANGED <<inputVars, hmmVars, gcVars, sweepVars, exc, log>>

Output(clustered_df, taken) ==
    /\ result' = clustered_df \o Frame(DOMAIN master \ taken).rows
    /\ pc' = "returned"
    /\ exc' = exc

Clustered(clustered_df) ==
    Output(clustered_df, {clustered_df[i].contig : i \in DOMAIN clustered_df})

\* binning, lines 413-416; pd.concat of an empty list raises ValueError
BinningReturn ==
    /\ pc = "rank"
    /\ ranks = <<>>
    /\ IF clusters = <<>>
       THEN /\ Raise("ValueError")
            /\ UNCHANGED result
       ELSE Clustered(Concat(clusters))
    /\ UNCHANGED <<inputVars, hmmVars, binningVars, gcVars, sweepVars, log>>

Next ==
    \/ Binning
    \/ ForRank
    \/ ForGroup
    \/ RecursiveDbscan
    \/ SweepIter
    \/ GetClustersRound
    \/ GetClustersReturn
    \/ BinningReturn

Spec == Init /\ [][Next]_vars

-----------------------------------------------------------------------------
(* hmmer.py: hmmscan *)

Orfs == "orfs.faa"
Hmmdb == "markers.hmm"
Outfpath == "out.hmmscan.tsv"
Devnull == "/dev/null"
Cpus == 0

\* tempfile.mkstemp(suffix=".{#}.txt", prefix=outprefix, dir=tmp_dirpath)
TmpFpath == "tmp/out.hmmscan.{#}.txt"

\* The file GNU parallel writes for its job 1 in place of {#}.
JobFpath == "tmp/out.hmmscan.1.txt"

File(name, size) == [name |-> name, size |-> size]

Sizes == {"empty", "full"}

\* list.insert(i, x) for a 0-based i within the list
Insert(s, i, x) == SubSeq(s, 1, i) \o <<x>> \o SubSeq(s, i + 1, Len(s))

\* lines 85-106
ParallelCmd(logpath) ==
    LET jobs == "-j" \o ToString(Cpus)
        base == <<"parallel", "--retries", "4", jobs, "--linebuffer", "--pipe",
                  "--recstart", "'>'", "hmmscan", "-o", Devnull, "--tblout",
                  TmpFpath, Hmmdb, "-", "<", Orfs, "2>", Devnull>>
    IN IF logpath # "None"
       THEN Insert(Insert(base, 3, logpath), 3, "--joblog")
       ELSE base

\* lines 110-111
SerialCmd == <<"hmmscan", "--cpu", ToString(Cpus), "--tblout", Outfpath, Hmmdb, Orfs>>

\* A refusal of every existing outfpath, the empty one too.
RefusesExisting(disk, force) == disk.outfpath # "missing" /\ ~force

\* line 79: os.path.exists(outfpath) and os.stat(outfpath).st_size > 0 and not force
Refuses(disk, force) == disk.outfpath = "full" /\ ~force

HmmRaise(e) ==
    /\ h_pc' = "raised"
    /\ h_exc' = e
    /\ h_result' = h_result

\* hmmscan, lines 79-80: the check of outfpath
HmmscanCheck ==
    /\ h_pc = "hmmscan"
    /\ IF Refuses(fs, args.force)
       THEN HmmRaise("FileExistsError")
       ELSE /\ h_pc' = "cmd"
            /\ UNCHANGED <<h_exc, h_result>>
    /\ UNCHANGED <<args, fs, fs_before, cmd, proc>>
    /\ UNCHANGED <<inputVars, binningVars, gcVars, sweepVars, pc, exc, result, log>>

\* hmmscan, lines 81-112: the temporary directory and file, and the command
HmmscanCmd ==
    /\ h_pc = "cmd"
    /\ IF args.parallel
       THEN /\ fs' = [fs EXCEPT !.tmp_dirpath = TRUE,
                                !.tmp_fpaths = <<File(TmpFpath, "empty")>>]
            /\ cmd' = ParallelCmd(args.log)
       ELSE /\ fs' = fs
            /\ cmd' = SerialCmd
    /\ h_pc' = "run"
    /\ UNCHANGED <<args, fs_before, proc, h_exc, h_result>>
    /\ UNCHANGED <<inputVars, binningVars, gcVars, sweepVars, pc, exc, result, log>>

\* What the subprocess may leave on disk: under parallel, nothing or the
\* table of one job in the temporary directory; otherwise outfpath as it
\* was, or written.
AfterRun(disk, parallel) ==
    IF parallel
    THEN {disk} \cup
         {[disk EXCEPT !.tmp_fpaths = Append(@, File(JobFpath, size))] : size \in Sizes}
    ELSE {disk} \cup {[disk EXCEPT !.outfpath = size] : size \in Sizes}

\* hmmscan, line 114 or lines 130-131: subprocess.run
HmmscanRun ==
    /\ h_pc = "run"
    /\ \E returncode \in {0, 1} : proc' = <<returncode>>
    /\ fs' \in AfterRun(fs, args.parallel)
    /\ h_pc' = IF args.parallel THEN "gather" ELSE "check"
    /\ UNCHANGED <<args, fs_before, cmd, h_exc, h_result>>
    /\ UNCHANGED <<inputVars, binningVars, gcVars, sweepVars, pc, exc, result, log>>

\* The size of the file that holds the lines of all the files.
Written(files) ==
    IF \E i \in DOMAIN files : files[i].size = "full" THEN "full" ELSE "empty"

\* hmmscan, lines 115-128: the tables of the jobs are written to outfpath
\* and the temporary directory is removed
HmmscanGather ==
    /\ h_pc = "gather"
    /\ fs' = [outfpath |-> Written(fs.tmp_fpaths), tmp_dirpath |-> FALSE, tmp_fpaths |-> <<>>]
    /\ h_pc' = "check"
    /\ UNCHANGED <<args, fs_before, cmd, proc, h_exc, h_result>>
    /\ UNCHANGED <<inputVars, binningVars, gcVars, sweepVars, pc, exc, result, log>>

\* hmmscan, lines 132-141
HmmscanReturn ==
    /\ h_pc = "check"
    /\ IF proc[1] # 0
       THEN HmmRaise("CalledProcessError")
       ELSE IF fs.outfpath = "missing"
       THEN HmmRaise("OSError")
       ELSE /\ h_pc' = "returned"
            /\ h_result' = Outfpath
            /\ h_exc' = h_exc
    /\ UNCHANGED <<args, fs, fs_before, cmd, proc>>
    /\ UNCHANGED <<inputVars, binningVars, gcVars, sweepVars, pc, exc, result, log>>

HmmNext ==
    \/ HmmscanCheck
    \/ HmmscanCmd
    \/ HmmscanRun
    \/ HmmscanGather
    \/ HmmscanReturn

\* A call of hmmscan, before any call of binning: outfpath is missing, empty
\* or full, and the arguments force, parallel and log take every value.
HmmInit ==
    /\ args \in [force : BOOLEAN, parallel : BOOLEAN, log : {"None", "parallel.log"}]
    /\ fs \in [outfpath : {"missing"} \cup Sizes, tmp_dirpath : {FALSE}, tmp_fpaths : {<<>>}]
    /\ fs_before = fs
    /\ cmd = <<>>
    /\ proc = <<>>
    /\ h_pc = "hmmscan"
    /\ h_exc = "none"
    /\ h_result = "None"
    /\ master = <<>>
    /\ markers = <<>>
    /\ params = [domain |-> "bacteria", completeness |-> 1, purity |-> 90,
                 taxonomy |-> FALSE, method |-> "DBSCAN", reverse |-> TRUE]
    /\ pc = "idle"
    /\ Fresh

HmmSpec == HmmInit /\ [][HmmNext]_vars

\* A call on an input with a distant contig.
FarSpec == FarInit /\ [][Next]_vars

\* The call is one thread of control that runs until it returns or raises: a
\* step that is possible is taken.
FairSpec == FairInit /\ [][Next]_vars /\ WF_vars(Next)
-----------------------------------------------------------------------------
(* Vocabulary of the properties *)

\* The contigs of the input table that the marker table lists.
SharedContigs == DOMAIN master \cap DOMAIN markers

Done == pc \in {"returned", "raised"}

ValidMethod == params.method \in {"DBSCAN", "HDBSCAN"}

IsBinName(c) == \E n \in 1..MaxContigs : c = BinName(n)

RowsOfContig(rows, c) == {i \in DOMAIN rows : rows[i].contig = c}

Events(op) == {i \in DOMAIN log : log[i].op = op}

-----------------------------------------------------------------------------
(* C1: every run of binning() on a contig table that overlaps the marker
   table returns a table in which every input contig appears exactly once,
   with a bin id or the unassigned sentinel. *)
C1_Coverage ==
    (Done /\ SharedContigs # {} /\ ValidMethod) =>
        /\ pc = "returned"
        /\ \A c \in DOMAIN master : Cardinality(RowsOfContig(result, c)) = 1
        /\ \A i \in DOMAIN result :
              /\ result[i].contig \in DOMAIN master
              /\ result[i].cluster = NoCluster \/ IsBinName(result[i].cluster)

-----------------------------------------------------------------------------
AcceptedTogether(a, b) ==
    \E i \in Events("accept") : {a, b} \subseteq log[i].contigs

BinsAreClusters(rows) ==
    \A i, j \in DOMAIN rows :
        (rows[i].cluster # NoCluster /\ rows[i].cluster = rows[j].cluster)
            => AcceptedTogether(rows[i].contig, rows[j].contig)

(* C2: within one run no bin id is issued twice: in the fragments kept by
   get_clusters, in those kept by binning and in the output, two contigs
   have the same bin id only if one sweep accepted them together as one
   cluster, and the output has as many bin ids as clusters were accepted. *)
C2_UniqueBins ==
    /\ BinsAreClusters(Concat(gc_clusters))
    /\ BinsAreClusters(Concat(clusters))
    /\ BinsAreClusters(result)
    /\ pc = "returned" => NUnique(result) = Cardinality(Events("accept"))

\* A returned run that accepted clusters in two different sweeps.
C2_Witness ==
    /\ pc = "returned"
    /\ NUnique(result) >= 2
    /\ \E i, j \in Events("accept") : \E k \in Events("recursive_dbscan") :
          i < k /\ k < j

(* C3: a marker table that shares no contig with the contig table makes
   binning() raise RecursiveDBSCANError before any clustering pass, with and
   without taxonomy, and no output table is produced; the error has no other
   cause. *)
C3_NoMarkersIsFatal ==
    /\ (SharedContigs = {} /\ pc # "binning") =>
          /\ pc = "raised"
          /\ exc = "RecursiveDBSCANError"
          /\ result = <<>>
          /\ log = <<>>
    /\ exc = "RecursiveDBSCANError" => SharedContigs = {}

\* The taxonomy path refused a marker table that lists only a foreign contig.
C3_Witness ==
    /\ pc = "raised"
    /\ exc = "RecursiveDBSCANError"
    /\ params.taxonomy
    /\ DOMAIN markers # {}
    /\ Len(master) >= 2

-----------------------------------------------------------------------------
\* The position in the history of the sweep started last.
LastSweep ==
    CHOOSE s \in Events("recursive_dbscan") :
        \A t \in Events("recursive_dbscan") : t <= s

\* A call of get_clusters is in progress or has just failed.
InGetClusters ==
    /\ Events("recursive_dbscan") # {}
    /\ params.taxonomy => ranks # <<>>

LastSweepAcceptedNothing == \A a \in Events("accept") : a < LastSweep

IsUnassigned(rows, contigs) ==
    /\ {rows[i].contig : i \in DOMAIN rows} = contigs
    /\ \A i \in DOMAIN rows : rows[i].cluster = NoCluster

(* C4: in get_clusters, when the sweep over the remaining contigs ends with
   nothing accepted, get_clusters does not fail: it appends these contigs,
   all unassigned, and leaves its loop; so for a residual of one contig too. *)
C4_EmptySweepStops ==
    (/\ ValidMethod
     /\ InGetClusters
     /\ pc \in {"gc_return", "raised"}
     /\ LastSweepAcceptedNothing) =>
        /\ pc = "gc_return"
        /\ IsUnassigned(gc_clusters[Len(gc_clusters)], log[LastSweep].contigs)

(* C5: with taxonomy, once all ranks are processed the call returns the
   table, every contig that was never accepted unassigned, also when no
   cluster was accepted at all. *)
C5_NothingClusterableReturns ==
    (/\ params.taxonomy
     /\ SharedContigs # {}
     /\ ValidMethod
     /\ ranks = <<>>
     /\ Done) =>
        /\ pc = "returned"
        /\ \A i \in DOMAIN result :
              result[i].contig \notin clustered_contigs
                  => result[i].cluster = NoCluster
        /\ DOMAIN master \ clustered_contigs
              \subseteq {result[i].contig : i \in DOMAIN result}

\* Scenario C: the contigs at one point carry markers and pass both cutoffs
\* as a cluster, those at a distant point are not in the marker table.
Rich == {c \in DOMAIN master : master[c].pt = PointCoords[1]}

Bare == {c \in DOMAIN master : master[c].pt = PointCoords[3]}

ScenarioC ==
    /\ ~params.taxonomy
    /\ params.method = "DBSCAN"
    /\ Rich # {} /\ Bare # {}
    /\ Rich \cup Bare = DOMAIN master
    /\ DOMAIN markers = Rich
    /\ GeqCutoff(Completeness(Rich, params.domain), params.completeness)
    /\ GeqCutoff(Purity(Rich), params.purity)

(* C6: on an input of two well-separated groups, one passing both cutoffs
   and one without any marker, the output has one bin, made of exactly the
   first group, and every contig of the second group is unassigned. *)
C6_ScenarioC ==
    (ScenarioC /\ Done) =>
        /\ pc = "returned"
        /\ \A i \in DOMAIN result :
              result[i].cluster =
                  IF result[i].contig \in Rich THEN BinName(1) ELSE NoCluster

\* The sweeps started after position g of the history and before the next
\* call of get_clusters.
SweepsOf(g) ==
    {s \in Events("recursive_dbscan") :
        /\ g < s
        /\ \A h \in Events("get_clusters") : ~(g < h /\ h < s)}

(* C7: with taxonomy, a group that is processed has exactly one sweep run
   on its remaining contigs; the residual of that sweep is not searched
   again within the group. *)
C7_OneSweepPerGroup ==
    params.taxonomy =>
        \A g \in Events("get_clusters") : Cardinality(SweepsOf(g)) <= 1

AcceptedBefore(k) ==
    UNION {log[a].contigs : a \in {e \in Events("accept") : e < k}}

AcceptedBetween(j, k) == AcceptedBefore(k) \ AcceptedBefore(j)

(* C7, amended: with taxonomy, a group that is processed has exactly one call
   of get_clusters, on the contigs of the group that were not yet accepted;
   the call starts with a sweep over these contigs, and every later sweep
   of the call is over the residual of the sweep before it. *)
C7_OneExtractionPerGroup ==
    params.taxonomy =>
        /\ \A g, h \in Events("get_clusters") :
              (log[g].rank = log[h].rank /\ log[g].name = log[h].name) => g = h
        /\ \A g \in Events("get_clusters") :
              /\ log[g].contigs =
                    RankDfWhole(log[g].rank, log[g].name) \ AcceptedBefore(g)
              /\ Cardinality(log[g].contigs) >= 2
              /\ g < Len(log) =>
                    /\ log[g + 1].op = "recursive_dbscan"
                    /\ log[g + 1].contigs = log[g].contigs
              /\ \A s, t \in SweepsOf(g) :
                    (s < t /\ \A u \in SweepsOf(g) : ~(s < u /\ u < t)) =>
                        /\ log[t].contigs = log[s].contigs \ AcceptedBetween(s, t)
                        /\ AcceptedBetween(s, t) # {}
                        /\ log[t].contigs # {}

\* A run with taxonomy has returned after a second sweep within one group.
C7_Witness ==
    /\ params.taxonomy
    /\ pc = "returned"
    /\ \E g \in Events("get_clusters") : Cardinality(SweepsOf(g)) >= 2

\* The passes of the while loop made by the sweep in progress.
PassesDone == SetSum(DOMAIN clustering_rounds, clustering_rounds)

(* C8: a sweep in which no cluster has passed both cutoffs ends when it has
   made 10 passes. *)
C8_GivesUpAfterTen ==
    (pc = "recursive_dbscan" /\ best_df.rows = <<>>) => PassesDone < GiveUpRounds

(* C9: run_dbscan on a table of one contig gives that contig the unassigned
   label in the column 'cluster' and raises nothing, with or without the
   columns of an earlier round, and the sweep over it ends with the contig
   unassigned. *)
C9_SingletonUnassigned ==
    Len(table.rows) = 1 =>
        /\ pc = "recursive_dbscan" =>
              /\ run_dbscan(table, eps, params.method).exc = "none"
              /\ "cluster" \in run_dbscan(table, eps, params.method).cols
              /\ IsUnassigned(run_dbscan(table, eps, params.method).rows, Index(table))
        /\ pc # "raised"
        /\ pc = "sweep_done" =>
              /\ SweepResult.clustered.rows = <<>>
              /\ Index(SweepResult.unclustered) = Index(table)

(* C10: a method other than 'DBSCAN' and 'HDBSCAN' makes the call fail with
   ValueError whatever the table, and no table is returned. *)
C10_InvalidMethodIsFatal ==
    (~ValidMethod /\ SharedContigs # {} /\ Done) =>
        /\ pc = "raised"
        /\ exc = "ValueError"
        /\ result = <<>>

-----------------------------------------------------------------------------
\* The summed count of marker m over a set of contigs; a contig that the
\* marker table does not list adds nothing.
MarkerCount(contigs, m) ==
    SetSum(contigs \cap DOMAIN markers, [c \in DOMAIN markers |-> markers[c][m]])

PresentMarkers(contigs) == {m \in MarkerColumns : MarkerCount(contigs, m) >= 1}

SingleCopyMarkers(contigs) == {m \in MarkerColumns : MarkerCount(contigs, m) = 1}

\* The last entry of the history is a pass of a sweep.
JustScored == log # <<>> /\ log[Len(log)].op = "pass"

LastScored == log[Len(log)].rows

ClusterOf(rows, i) == {rows[k].contig : k \in {j \in DOMAIN rows : rows[j].cluster = rows[i].cluster}}

PurityAsSpecified(rows, i) ==
    IF PresentMarkers(ClusterOf(rows, i)) = {}
    THEN rows[i].purity = NA
    ELSE /\ rows[i].purity = <<100 * Cardinality(SingleCopyMarkers(ClusterOf(rows, i))),
                               Cardinality(PresentMarkers(ClusterOf(rows, i)))>>
         /\ rows[i].purity[2] > 0
         /\ 0 <= rows[i].purity[1]
         /\ rows[i].purity[1] <= 100 * rows[i].purity[2]

\* Scoring the labelled partition binned raises nothing.
ScoredWithoutError(binned) ==
    (binned.exc = "none" /\ "cluster" \in binned.cols) =>
        add_metrics(binned, params.domain).exc = "none"

(* C11: every cluster scored by add_metrics has purity null exactly when
   none of its markers is present, and otherwise 100 * single-copy markers /
   present markers, a value from 0 to 100 with a non-zero divisor; scoring a
   labelled partition raises nothing. *)
C11_PurityGuarded ==
    /\ JustScored => \A i \in DOMAIN LastScored : PurityAsSpecified(LastScored, i)
    /\ pc = "recursive_dbscan" => ScoredWithoutError(run_dbscan(table, eps, params.method))

\* A pass scored a cluster without markers, a pure and an impure cluster.
C11_Witness ==
    /\ JustScored
    /\ \E i, j, k \in DOMAIN LastScored :
          /\ LastScored[i].purity = NA
          /\ LastScored[j].purity # NA /\ LastScored[j].purity[1] = 100 * LastScored[j].purity[2]
          /\ LastScored[k].purity # NA /\ LastScored[k].purity[1] < 100 * LastScored[k].purity[2]

-----------------------------------------------------------------------------
ExpectedFor(domain) ==
    IF domain \in {"archaea", "Archaea", "ARCHAEA"} THEN ExpectedArchaea
    ELSE ExpectedBacteria

CompletenessAsSpecified(rows, i) ==
    rows[i].completeness =
        <<100 * Cardinality(PresentMarkers(ClusterOf(rows, i))), ExpectedFor(params.domain)>>

(* C12: in the table binning() returns, an unassigned contig has null
   completeness and null purity, and a contig with a bin id has the
   completeness and the purity of the set of contigs that carry this bin id. *)
C12_OutputScores ==
    pc = "returned" =>
        \A i \in DOMAIN result :
            IF result[i].cluster = NoCluster
            THEN result[i].completeness = NA /\ result[i].purity = NA
            ELSE /\ CompletenessAsSpecified(result, i)
                 /\ PurityAsSpecified(result, i)

\* A returned table with a bin and with contigs left unassigned by a second
\* sweep.
C12_Witness ==
    /\ pc = "returned"
    /\ \E i, j \in DOMAIN result :
          result[i].cluster # NoCluster /\ result[j].cluster = NoCluster
    /\ Cardinality(Events("recursive_dbscan")) >= 2
    /\ ~params.taxonomy

-----------------------------------------------------------------------------
\* The contigs of the rows of a frame, each of them in one row.
HasExactly(frame, contigs) ==
    /\ Index(frame) = contigs
    /\ Len(frame.rows) = Cardinality(contigs)

(* C13: a sweep in which no pass has a cluster that passes both cutoffs
   returns an empty accepted table and, as residual, its input table: the
   same contigs, each once, and no column 'cluster'. *)
C13_EmptySweepReturnsInput ==
    (pc = "sweep_done" /\ best_df.rows = <<>>) =>
        /\ SweepResult.clustered.rows = <<>>
        /\ HasExactly(SweepResult.unclustered, log[LastSweep].contigs)
        /\ "cluster" \notin SweepResult.unclustered.cols
        /\ \A i \in DOMAIN SweepResult.unclustered.rows :
              SweepResult.unclustered.rows[i].cluster = NoCluster

\* A second sweep of a run made several passes over two or more contigs and
\* ended with nothing retained.
C13_Witness ==
    /\ pc = "sweep_done"
    /\ best_df.rows = <<>>
    /\ Len(table.rows) >= 2
    /\ Cardinality(Events("recursive_dbscan")) >= 2
    /\ Cardinality({p \in Events("pass") : p > LastSweep}) >= 2

-----------------------------------------------------------------------------
\* The passes made so far by the sweep started last, and those among them
\* in which a cluster passed both cutoffs.
SweepPasses == {p \in Events("pass") : p > LastSweep}

Defined == {p \in SweepPasses : log[p].median # NaN}

\* a/b >= c/d for fractions <<a, b>> and <<c, d>>
AtLeast(v, w) == v[1] * w[2] >= w[1] * v[2]

IsMaximalIn(defined, p) == \A q \in defined : AtLeast(log[p].median, log[q].median)

IsMaximal(p) == IsMaximalIn(Defined, p)

\* The last of the passes whose median is the largest.
LastMaximal(defined) ==
    CHOOSE p \in defined :
        /\ IsMaximalIn(defined, p)
        /\ \A q \in defined : IsMaximalIn(defined, q) => q <= p

BestIsLastMaximal(defined) ==
    IF defined = {}
    THEN best_df.rows = <<>> /\ best_median = NegInf
    ELSE /\ best_df.rows = log[LastMaximal(defined)].rows
         /\ best_median = log[LastMaximal(defined)].median

(* C14: after every pass of a sweep, the last one included, the retained
   partition is that of the last pass whose median completeness, over the
   rows passing both cutoffs, is the largest among the passes made; a pass
   in which nothing passes has no median and is never retained. *)
C14_BestIsLastMaximal == JustScored => BestIsLastMaximal(Defined)

\* A sweep ended after two passes with different partitions tied at the
\* largest median and after a pass in which nothing passed.
C14_Witness ==
    /\ pc = "sweep_done"
    /\ \E p, q \in Defined :
          /\ p < q
          /\ IsMaximal(p) /\ IsMaximal(q)
          /\ log[p].rows # log[q].rows
    /\ \E p \in SweepPasses : log[p].median = NaN

-----------------------------------------------------------------------------
AcceptedSoFar == AcceptedBefore(Len(log) + 1)

RowOf(rows, c) == rows[CHOOSE i \in DOMAIN rows : rows[i].contig = c]

\* The output gives the contigs of accept event a one bin of their own and
\* the scores they were accepted with.
WrittenAsAccepted(a) ==
    \A c \in log[a].contigs :
        /\ RowOf(result, c).cluster # NoCluster
        /\ RowOf(result, c).completeness = log[a].completeness
        /\ RowOf(result, c).purity = log[a].purity
        /\ \A d \in DOMAIN master :
              (RowOf(result, d).cluster = RowOf(result, c).cluster) <=> d \in log[a].contigs

OnceAccepted ==
    /\ \A a, b \in Events("accept") : a # b => log[a].contigs \cap log[b].contigs = {}
    /\ \A s \in Events("recursive_dbscan") : log[s].contigs \cap AcceptedBefore(s) = {}
    /\ clustered_contigs \subseteq AcceptedSoFar
    /\ pc \in {"rank", "group"} => clustered_contigs = AcceptedSoFar
    /\ pc = "returned" => \A a \in Events("accept") : WrittenAsAccepted(a)

(* C15: with taxonomy, a contig is accepted at most once; once accepted it
   is in no later sweep of the run, the set clustered_contigs never loses a
   contig, and the output gives the contig the bin and the scores of that
   acceptance. *)
C15_WrittenOnce ==
    /\ [](params.taxonomy => OnceAccepted)
    /\ [][clustered_contigs \subseteq clustered_contigs']_vars

\* A run with taxonomy returned after a group was searched at a later rank
\* without the contigs accepted at an earlier rank.
C15_Witness ==
    /\ params.taxonomy
    /\ pc = "returned"
    /\ \E g, h \in Events("get_clusters") :
          /\ g < h
          /\ log[g].rank # log[h].rank
          /\ AcceptedBefore(h) # {}
          /\ AcceptedBefore(h) \cap RankDfWhole(log[h].rank, log[h].name) # {}

-----------------------------------------------------------------------------
\* The names of the first bins of a run.
BinIds == <<"bin_0001", "bin_0002", "bin_0003", "bin_0004", "bin_0005", "bin_0006">>

\* The number of clusters accepted up to accept event a, a included.
Ordinal(a) == Cardinality({b \in Events("accept") : b <= a})

\* The rows give the contigs of the k-th accepted cluster the k-th name.
NumberedInOrder(rows) ==
    \A a \in Events("accept") : \A c \in log[a].contigs :
        RowOf(rows, c).cluster = BinIds[Ordinal(a)]

(* C16: the clusters of a run are named bin_0001, bin_0002, ... in the order
   in which they are accepted, through the rounds of get_clusters and, with
   taxonomy, through the groups and ranks; a returned table with K bins has
   exactly the names bin_0001 .. bin_K. *)
C16_NumberedInOrder ==
    /\ pc = "returned" =>
          /\ NumberedInOrder(result)
          /\ {result[i].cluster : i \in DOMAIN result} \ {NoCluster}
                = {BinIds[k] : k \in 1..Cardinality(Events("accept"))}
    /\ (params.taxonomy /\ pc \in {"rank", "group"}) => NumberedInOrder(Concat(clusters))
    /\ (~params.taxonomy /\ pc \in {"get_clusters", "recursive_dbscan", "sweep_done", "gc_return"})
          => NumberedInOrder(Concat(gc_clusters))

\* A run without taxonomy returned bin_0002 for a cluster accepted in the
\* round after the one that accepted bin_0001.
C16_Witness ==
    /\ pc = "returned"
    /\ ~params.taxonomy
    /\ \E a, b \in Events("accept") : \E s \in Events("recursive_dbscan") :
          /\ a < s /\ s < b
          /\ \A c \in log[a].contigs : RowOf(result, c).cluster = "bin_0001"
          /\ \A c \in log[b].contigs : RowOf(result, c).cluster = "bin_0002"

-----------------------------------------------------------------------------
\* The row has scores that pass both cutoffs.
PassesBoth(r) ==
    /\ r.completeness # NA /\ AtLeast(r.completeness, <<params.completeness, 1>>)
    /\ r.purity # NA /\ AtLeast(r.purity, <<params.purity, 1>>)

\* The first pass of the call of get_clusters at position g of the history
\* has put all contigs of the call into one cluster that passes both cutoffs.
FirstPassTakesAll(g) ==
    /\ g + 2 <= Len(log)
    /\ log[g + 2].op = "pass"
    /\ Index([rows |-> log[g + 2].rows]) = log[g].contigs
    /\ \A i, j \in DOMAIN log[g + 2].rows :
          log[g + 2].rows[i].cluster = log[g + 2].rows[j].cluster
    /\ \A i \in DOMAIN log[g + 2].rows : PassesBoth(log[g + 2].rows[i])

\* All the contigs are in the rows, in one bin named bin_0001 with the
\* scores of the row scored.
AllInFirstBin(rows, contigs, scored) ==
    /\ {rows[i].contig : i \in DOMAIN rows} = contigs
    /\ Len(rows) = Cardinality(contigs)
    /\ \A i \in DOMAIN rows :
          /\ rows[i].cluster = "bin_0001"
          /\ rows[i].completeness = scored.completeness
          /\ rows[i].purity = scored.purity

OnePassExtraction(g) ==
    /\ Len(log) = g + 2 =>
          /\ pc = "sweep_done"
          /\ SweepResult.unclustered.rows = <<>>
          /\ Index(SweepResult.clustered) = log[g].contigs
    /\ Len(log) >= g + 3 =>
          /\ log[g + 3].op = "accept"
          /\ log[g + 3].contigs = log[g].contigs
    /\ (Len(log) = g + 3 /\ pc = "gc_return") =>
          AllInFirstBin(Concat(gc_clusters), log[g].contigs, log[g + 2].rows[1])
    /\ (~params.taxonomy /\ pc = "returned") =>
          AllInFirstBin(result, DOMAIN master, log[g + 2].rows[1])

(* C17: when the first pass of an extraction puts all its contigs into one
   cluster that passes both cutoffs, the sweep makes this pass only, accepts
   all the contigs and leaves no residual, and the extraction returns every
   contig in bin_0001 with the completeness and purity of that cluster. *)
C17_OneClusterOnePass ==
    \A g \in Events("get_clusters") : FirstPassTakesAll(g) => OnePassExtraction(g)

\* A call without taxonomy returned three or more contigs in one bin found
\* by the first pass.
C17_Witness ==
    /\ pc = "returned"
    /\ ~params.taxonomy
    /\ Len(master) >= 3
    /\ FirstPassTakesAll(1)
    /\ \A i \in DOMAIN result : result[i].cluster = "bin_0001"

-----------------------------------------------------------------------------
CoarseToFine ==
    <<"superkingdom", "phylum", "class", "order", "family", "genus", "species">>

FineToCoarse ==
    <<"species", "genus", "family", "order", "class", "phylum", "superkingdom">>

\* The ranks in the order in which the loop of binning has taken them up.
RanksVisited ==
    LET events == SelectSeq(log, LAMBDA e : e.op = "rank")
    IN Tuple([i \in DOMAIN events |-> events[i].rank])

\* The rank the loop of binning was at when entry g was added to the history.
RankAt(g) ==
    LET before == {r \in Events("rank") : r < g}
    IN log[CHOOSE r \in before : \A q \in before : q <= r].rank

VisitedInOrder(visited, expected) ==
    /\ Len(visited) <= Len(expected)
    /\ visited = SubSeq(expected, 1, Len(visited))
    /\ (pc # "binning" /\ SharedContigs # {} /\ ranks = <<>>) => visited = expected

(* C18: with taxonomy the ranks are taken up once each, without root, from
   superkingdom down to species when reverse has its default value True and
   from species up to superkingdom when it is False, and every group is
   searched while the loop is at the rank of the group. *)
C18_RankOrder ==
    params.taxonomy =>
        /\ VisitedInOrder(RanksVisited, IF params.reverse THEN CoarseToFine ELSE FineToCoarse)
        /\ \A g \in Events("get_clusters") :
              /\ \E r \in Events("rank") : r < g
              /\ log[g].rank = RankAt(g)

\* A run from species up returned after searching a group at phylum and one
\* at superkingdom.
C18_Witness ==
    /\ params.taxonomy
    /\ ~params.reverse
    /\ pc = "returned"
    /\ RanksVisited = FineToCoarse
    /\ \E g, h \in Events("get_clusters") :
          g < h /\ log[g].rank = "phylum" /\ log[h].rank = "superkingdom"

-----------------------------------------------------------------------------
\* The labelled rows of a partition: contig and label, in the order of the rows.
Labelled(rows) ==
    LET kept == SelectSeq(rows, LAMBDA r : r.cluster # NoCluster)
    IN Tuple([i \in DOMAIN kept |-> <<kept[i].contig, kept[i].cluster>>])

\* The scored rows are the labelled rows of the partition that was scored.
SamePartition(scored, binned) == Labelled(scored) = Labelled(binned.rows)

CompletenessInRange(r) ==
    /\ r.completeness # NA
    /\ 0 <= r.completeness[1]
    /\ r.completeness[1] <= 100 * r.completeness[2]

ScoredAsSpecified ==
    JustScored =>
        /\ \A i \in DOMAIN LastScored :
              /\ CompletenessAsSpecified(LastScored, i)
              /\ CompletenessInRange(LastScored[i])
        /\ SamePartition(LastScored, run_dbscan(table, log[Len(log)].eps, params.method))

(* C19: add_metrics gives every cluster the completeness 100 * (markers
   whose count summed over the contigs of the cluster is at least 1) /
   expected number, a contig that is not in the marker table adding nothing,
   with 139 expected for bacteria, 162 for archaea and 139 for any other
   domain; the value is within [0, 100]; scoring changes neither the
   labels of the partition nor the marker table. *)
C19_CompletenessReference ==
    /\ []ScoredAsSpecified
    /\ [][markers' = markers]_vars

\* A pass of a call for a domain outside marker_sets scored a cluster made of
\* a contig of the marker table and of one that is not in it.
C19_Witness ==
    /\ JustScored
    /\ params.domain = "viruses"
    /\ \E i, j \in DOMAIN LastScored :
          /\ LastScored[i].cluster = LastScored[j].cluster
          /\ LastScored[i].contig \in DOMAIN markers
          /\ LastScored[j].contig \notin DOMAIN markers
          /\ LastScored[i].completeness = <<100, 139>>

-----------------------------------------------------------------------------
\* The contigs of the retained partition whose row passes both cutoffs.
PassingContigs ==
    {best_df.rows[i].contig : i \in {k \in DOMAIN best_df.rows : PassesBoth(best_df.rows[k])}}

SplitByCutoffs(res, input) ==
    /\ Index(res.clustered) = PassingContigs
    /\ Index(res.unclustered) = input \ PassingContigs
    /\ Index(res.clustered) \cap Index(res.unclustered) = {}
    /\ Index(res.clustered) \cup Index(res.unclustered) = input
    /\ Len(res.clustered.rows) + Len(res.unclustered.rows) = Cardinality(input)
    /\ \A i, j \in DOMAIN best_df.rows :
          best_df.rows[i].cluster = best_df.rows[j].cluster =>
              (best_df.rows[i].contig \in Index(res.clustered)
                  <=> best_df.rows[j].contig \in Index(res.clustered))

(* C20: a sweep that retained a partition returns as accepted the contigs
   of the clusters of that partition that pass both cutoffs and as residual
   all the others; the two are disjoint, together they are the contigs the
   sweep was given, and no cluster has contigs on both sides. *)
C20_SplitByCutoffs ==
    (pc = "sweep_done" /\ best_df.rows # <<>>) =>
        SplitByCutoffs(SweepResult, log[LastSweep].contigs)

\* A sweep returned an accepted cluster of two contigs and a residual that
\* holds another cluster, of two contigs with markers.
C20_Witness ==
    /\ pc = "sweep_done"
    /\ best_df.rows # <<>>
    /\ Len(SweepResult.clustered.rows) = 2
    /\ \E i, j \in DOMAIN SweepResult.unclustered.rows :
          /\ i # j
          /\ SweepResult.unclustered.rows[i].cluster = SweepResult.unclustered.rows[j].cluster
          /\ SweepResult.unclustered.rows[i].purity # NA
-----------------------------------------------------------------------------
\* The number of distinct labels of a scored partition.
ClusterCount(rows) == Cardinality({rows[i].cluster : i \in DOMAIN rows})

\* In history h: the passes of the sweep started last, and how many of them
\* produced n clusters.
PassesOfLastSweep(h) ==
    {p \in DOMAIN h :
        /\ h[p].op = "pass"
        /\ \E s \in DOMAIN h : s < p /\ h[s].op = "recursive_dbscan"
        /\ \A s \in DOMAIN h : (p < s) => h[s].op # "recursive_dbscan"}

TimesProduced(h, n) ==
    Cardinality({p \in PassesOfLastSweep(h) : ClusterCount(h[p].rows) = n})

\* The step from one state to the next is a pass of a sweep that was scored.
IsPass(before, after) == Len(after) = Len(before) + 1 /\ after[Len(after)].op = "pass"

\* The pass recorded last in history h was made at radius radius; it left
\* the step at next_step, from step before, and the radius at next_eps.
AcceleratedAsSpecified(h, radius, before, next_step, next_eps) ==
    /\ h[Len(h)].eps = radius
    /\ next_step = IF TimesProduced(h, ClusterCount(h[Len(h)].rows)) > 10
                   THEN 10 * before ELSE before
    /\ next_eps = radius + next_step
    /\ next_eps > radius
    /\ next_step >= before

(* C21: every sweep starts at the radius 0.3 with the step 0.1; a pass
   multiplies the step by 10 exactly when the number of clusters it produced
   has by then been produced by more than 10 passes of this sweep, and
   leaves it as it is otherwise; the pass then adds the step to the radius,
   so the radius grows with every pass and the step never shrinks. *)
C21_PlateauAcceleration ==
    [][/\ (pc = "get_clusters" /\ pc' = "recursive_dbscan") => (eps' = 30 /\ step' = 10)
       /\ (pc = "recursive_dbscan" /\ IsPass(log, log')) =>
             AcceleratedAsSpecified(log', eps, step, step', eps')
       /\ (pc = "recursive_dbscan" /\ pc' # "raised") => IsPass(log, log')]_vars

\* A second sweep starts at 0.3 and 0.1 after a sweep that multiplied its step
\* twice and made its last pass at the radius 12.4.
C21_Witness ==
    /\ pc = "recursive_dbscan"
    /\ eps = 30 /\ step = 10
    /\ \E p, q \in DOMAIN log :
          /\ p + 1 = q
          /\ log[p].op = "pass" /\ log[p].eps = 240
          /\ log[q].op = "pass" /\ log[q].eps = 1240
-----------------------------------------------------------------------------
\* The passes of the sweep started last whose partition had more than one
\* cluster.
PassesWithSeveral == {p \in SweepPasses : ClusterCount(log[p].rows) > 1}

\* The last pass has a median and no pass of the sweep has a larger one.
LastPassIsMaximal ==
    /\ log[Len(log)].median # NaN
    /\ \A q \in Defined : AtLeast(log[Len(log)].median, log[q].median)

LoopAsSpecified ==
    /\ (JustScored /\ ClusterCount(LastScored) > 1) => pc = "recursive_dbscan"
    /\ (JustScored /\ pc = "recursive_dbscan") =>
          /\ ClusterCount(LastScored) > 1
          /\ PassesWithSeveral = SweepPasses
    /\ pc = "sweep_done" =>
          /\ JustScored
          /\ SweepPasses # {}
          /\ ClusterCount(LastScored) <= 1
          /\ PassesWithSeveral = SweepPasses \ {Len(log)}
          /\ LastPassIsMaximal => (best_df.rows = LastScored /\ best_median = log[Len(log)].median)

(* C22: a sweep that has ended has made at least one pass; after a pass
   whose partition has more than one cluster the sweep makes another pass,
   and it ends right after the first pass whose partition has at most one
   cluster; that last partition is scored and is retained when its median is
   the largest.  The clustering of the model merges clusters as the radius
   grows, and every sweep comes to an end: it returns or it raises. *)
C22_SweepTerminates ==
    /\ []LoopAsSpecified
    /\ (pc = "recursive_dbscan") ~> (pc \in {"sweep_done", "raised"})

\* A sweep ended after thirteen passes, the last one with one cluster, which
\* it retained.
C22_Witness ==
    /\ pc = "sweep_done"
    /\ Cardinality(SweepPasses) = 13
    /\ ClusterCount(LastScored) = 1
    /\ best_df.rows = LastScored
-----------------------------------------------------------------------------
IteratedRanks ==
    {"superkingdom", "phylum", "class", "order", "family", "genus", "species"}

TaxonAt(c, rank) == master[c].taxa[rank]

\* The contigs that have no classification at any of the ranks iterated.
Unclassified == {c \in DOMAIN master : \A r \in IteratedRanks : TaxonAt(c, r) = "unclassified"}

\* The contigs that have the value name at the rank.
TaxonMembers(rank, name) == {c \in DOMAIN master : TaxonAt(c, rank) = name}

\* The call of get_clusters at position g of the history is for a group of
\* two or more contigs classified alike at the rank of the call.
IsClassifiedGroup(g) ==
    /\ log[g].rank \in IteratedRanks
    /\ log[g].name # "unclassified"
    /\ log[g].contigs \subseteq TaxonMembers(log[g].rank, log[g].name)
    /\ log[g].contigs \cap AcceptedBefore(g) = {}
    /\ Cardinality(log[g].contigs) >= 2

NeverSwept(c) ==
    \A e \in DOMAIN log :
        log[e].op \in {"get_clusters", "recursive_dbscan", "pass", "accept"}
            => c \notin log[e].contigs

(* C23: with taxonomy, every call of get_clusters is for a rank-value group
   whose value is not "unclassified" and that has two or more contigs left
   after the contigs already accepted are removed; a contig that is
   unclassified at every rank iterated is in no call, sweep or pass, and the
   returned table has it unassigned. *)
C23_UnclassifiedNeverSwept ==
    params.taxonomy =>
        /\ \A g \in Events("get_clusters") : IsClassifiedGroup(g)
        /\ \A c \in Unclassified :
              /\ NeverSwept(c)
              /\ c \notin clustered_contigs
              /\ pc = "returned" =>
                    /\ Cardinality(RowsOfContig(result, c)) = 1
                    /\ RowOf(result, c).cluster = NoCluster

\* A run with taxonomy returned a table with a bin and an unclassified
\* contig, after skipping the superkingdom of three contigs of which two
\* were accepted at their phylum.
C23_Witness ==
    /\ params.taxonomy
    /\ pc = "returned"
    /\ Unclassified # {}
    /\ \E i \in DOMAIN result : result[i].cluster # NoCluster
    /\ Cardinality(TaxonMembers("superkingdom", "bacteria")) = 3
    /\ Cardinality(TaxonMembers("superkingdom", "bacteria") \ clustered_contigs) = 1
    /\ \A g \in Events("get_clusters") : log[g].rank # "superkingdom"
    /\ \E r \in Events("rank") : log[r].rank = "superkingdom"
-----------------------------------------------------------------------------
\* Every row with a bin id reports scores that pass both cutoffs, and the
\* contigs of its bin have a marker present.
BinsPass(rows) ==
    \A i \in DOMAIN rows :
        rows[i].cluster # NoCluster =>
            /\ PassesBoth(rows[i])
            /\ PresentMarkers(ClusterOf(rows, i)) # {}

(* C25: every contig with a bin id, in the fragments kept by get_clusters
   and by binning and in the returned table, reports a completeness of at
   least completeness_cutoff and a purity that is not null and at least
   purity_cutoff; every accepted cluster passes both cutoffs and has a
   marker present, also when both cutoffs are 0. *)
C25_BinsPassCutoffs ==
    /\ pc = "returned" => BinsPass(result)
    /\ BinsPass(Concat(gc_clusters))
    /\ BinsPass(Concat(clusters))
    /\ \A a \in Events("accept") :
          /\ PassesBoth(log[a])
          /\ PresentMarkers(log[a].contigs) # {}

\* A run with both cutoffs 0 returned a bin after a pass in which a cluster
\* without markers, of null purity, was scored.
C25_Witness ==
    /\ pc = "returned"
    /\ params.completeness = 0 /\ params.purity = 0
    /\ \E i \in DOMAIN result : result[i].cluster # NoCluster
    /\ \E p \in Events("pass") : \E i \in DOMAIN log[p].rows :
          /\ log[p].rows[i].purity = NA
          /\ log[p].rows[i].completeness = <<0, ExpectedFor(params.domain)>>
-----------------------------------------------------------------------------
\* The entries of the history that belong to the sweep started at position s:
\* those up to the next sweep or the next call of get_clusters.
InSweep(s, e) ==
    /\ s < e
    /\ \A x \in Events("recursive_dbscan") \cup Events("get_clusters") : ~(s < x /\ x <= e)

AcceptsOf(s) == {a \in Events("accept") : InSweep(s, a)}

PassesOf(s) == {p \in Events("pass") : InSweep(s, p)}

\* The sets of contigs that pass p of the history put into one cluster.
ClustersOf(p) == {ClusterOf(log[p].rows, i) : i \in DOMAIN log[p].rows}

\* What sweep s accepted is made of whole clusters of one of its passes.
AcceptsWholeClusters(s) ==
    AcceptsOf(s) # {} =>
        \E p \in PassesOf(s) : \A a \in AcceptsOf(s) : log[a].contigs \in ClustersOf(p)

AcceptedBy(s) == UNION {log[a].contigs : a \in AcceptsOf(s)}

\* Sweep t is the one that follows sweep s in the call of get_clusters at g.
NextSweep(g, s, t) ==
    /\ s \in SweepsOf(g) /\ t \in SweepsOf(g)
    /\ s < t
    /\ \A u \in SweepsOf(g) : ~(s < u /\ u < t)

ExtractionProgresses(g) ==
    /\ Cardinality(SweepsOf(g)) <= Cardinality(log[g].contigs)
    /\ \A s \in SweepsOf(g) :
          /\ AcceptsWholeClusters(s)
          /\ AcceptedBy(s) \subseteq log[s].contigs
          /\ \A t \in SweepsOf(g) :
                NextSweep(g, s, t) =>
                    /\ AcceptedBy(s) # {}
                    /\ log[t].contigs = log[s].contigs \ AcceptedBy(s)
                    /\ log[t].contigs # log[s].contigs
                    /\ log[t].contigs # {}

\* get_clusters has left its loop: its last sweep accepted nothing, or it
\* accepted all the contigs it was given.
StoppedAsSpecified ==
    pc = "gc_return" =>
        \/ AcceptedBy(LastSweep) = {}
        \/ AcceptedBy(LastSweep) = log[LastSweep].contigs

(* C26: a sweep that accepts something accepts whole clusters of one of its
   passes, and the next round of get_clusters is given what is left, a
   non-empty strict subset of the contigs of the round; a call of
   get_clusters on N contigs makes at most N sweeps; a round that is due can
   start its sweep, and the call leaves its loop after a sweep that accepted
   nothing or one that accepted all it was given. *)
C26_ExtractionTerminates ==
    /\ \A g \in Events("get_clusters") : ExtractionProgresses(g)
    /\ StoppedAsSpecified
    /\ pc = "get_clusters" => ENABLED RecursiveDbscan

\* A call of get_clusters on four contigs has left its loop after two
\* sweeps, the second over the two contigs the first had left.
C26_Witness ==
    /\ pc = "gc_return"
    /\ \E g \in Events("get_clusters") : \E s, t \in SweepsOf(g) :
          /\ Cardinality(log[g].contigs) = 4
          /\ NextSweep(g, s, t)
          /\ Cardinality(log[t].contigs) = 2
          /\ t = LastSweep
-----------------------------------------------------------------------------
\* The scores of a set of contigs taken as one cluster pass both cutoffs.
WholePasses(contigs) ==
    /\ PresentMarkers(contigs) # {}
    /\ 100 * Cardinality(PresentMarkers(contigs))
          >= params.completeness * ExpectedFor(params.domain)
    /\ 100 * Cardinality(SingleCopyMarkers(contigs))
          >= params.purity * Cardinality(PresentMarkers(contigs))

\* The sweep in progress has ended with a pass that put all its contigs into
\* one cluster.
ReachedOneCluster ==
    /\ pc = "sweep_done"
    /\ JustScored
    /\ ClustersOf(Len(log)) = {log[LastSweep].contigs}

UnionDominates ==
    \A p \in Defined : AtLeast(log[Len(log)].median, log[p].median)

(* C27: when the contigs given to a sweep pass both cutoffs as one cluster
   and the sweep ends with the pass that puts them all into one cluster, no
   pass of the sweep has a larger median than this last one, the sweep
   retains it, accepts every contig as this one cluster and returns an empty
   residual. *)
C27_WholeClusterWins ==
    (ReachedOneCluster /\ WholePasses(log[LastSweep].contigs)) =>
        /\ UnionDominates
        /\ best_df.rows = LastScored
        /\ Index(SweepResult.clustered) = log[LastSweep].contigs
        /\ Len(SweepResult.clustered.rows) = Cardinality(log[LastSweep].contigs)
        /\ \A i \in DOMAIN SweepResult.clustered.rows :
              SweepResult.clustered.rows[i].cluster = SweepResult.clustered.rows[1].cluster
        /\ SweepResult.unclustered.rows = <<>>

\* A sweep over four contigs ended with all of them in one passing cluster,
\* after a pass with two passing clusters of the same median.
C27_Witness ==
    /\ ReachedOneCluster
    /\ WholePasses(log[LastSweep].contigs)
    /\ Cardinality(log[LastSweep].contigs) = 4
    /\ \E p \in Defined :
          /\ p # Len(log)
          /\ Cardinality(ClustersOf(p)) >= 2
          /\ \A i \in DOMAIN log[p].rows : PassesBoth(log[p].rows[i])
          /\ AtLeast(log[p].median, log[Len(log)].median)
-----------------------------------------------------------------------------
\* The call of get_clusters during which the cluster of accept event a was
\* accepted.
CallOf(a) ==
    CHOOSE g \in Events("get_clusters") :
        g < a /\ \A h \in Events("get_clusters") : h < a => h <= g

\* The contigs that carry the bin id of contig c in the rows.
BinOf(rows, c) == {rows[i].contig : i \in {k \in DOMAIN rows : rows[k].cluster = RowOf(rows, c).cluster}}

\* The cluster of accept event a was accepted within one rank-value group:
\* all its contigs have the value of the group at the rank of the group.
Homogeneous(a) ==
    /\ \E g \in Events("get_clusters") : g < a
    /\ log[CallOf(a)].rank \in IteratedRanks
    /\ log[CallOf(a)].name # "unclassified"
    /\ \A c \in log[a].contigs : TaxonAt(c, log[CallOf(a)].rank) = log[CallOf(a)].name
    /\ log[CallOf(a)].rank = RankAt(a)

(* C28: with taxonomy, every cluster is accepted during the search of one
   rank-value group, and all its contigs have the value of that group, not
   "unclassified", at the rank of that group; in the returned table the
   contigs of a bin are those of one accepted cluster, so no bin has contigs
   of two values of the rank at which it was accepted. *)
C28_BinsAreHomogeneous ==
    params.taxonomy =>
        /\ \A a \in Events("accept") : Homogeneous(a)
        /\ pc = "returned" =>
              \A a \in Events("accept") : \A c \in log[a].contigs :
                  BinOf(result, c) = log[a].contigs

\* A run with taxonomy returned two bins, accepted at the phylum for two
\* phyla of one superkingdom.
C28_Witness ==
    /\ params.taxonomy
    /\ pc = "returned"
    /\ \E a, b \in Events("accept") :
          /\ log[CallOf(a)].rank = "phylum" /\ log[CallOf(a)].name = "firmicutes"
          /\ log[CallOf(b)].rank = "phylum" /\ log[CallOf(b)].name = "proteobacteria"
          /\ \A c \in log[a].contigs \cup log[b].contigs :
                TaxonAt(c, "superkingdom") = "bacteria"

-----------------------------------------------------------------------------
(* C24 *)

\* hmmscan was called on an outfpath of non-zero size without force.
CalledOnWrittenFile == fs_before.outfpath = "full" /\ ~args.force

\* Nothing was built, run, created or written.
NothingDone ==
    /\ fs = fs_before
    /\ ~fs.tmp_dirpath
    /\ cmd = <<>>
    /\ proc = <<>>

\* The call went on past the check: once past the building of the command
\* there is a command, and no later end of the call is a FileExistsError.
Proceeded ==
    /\ h_exc # "FileExistsError"
    /\ h_pc \in {"run", "gather", "check", "returned"} => cmd # <<>>
    /\ h_pc \in {"gather", "check", "returned"} => proc # <<>>
    /\ h_pc = "raised" => proc # <<>>

\* C24: hmmscan refuses to overwrite.  Called on an outfpath of non-zero
\* size with force False, it raises FileExistsError, and nothing else, with
\* no command built or run, no temporary directory and the file system as
\* it was at the call.  Called with force True, or on a missing or empty
\* outfpath, it goes on to build and run the command, and it returns
\* outfpath only when the subprocess exited with code 0 and outfpath exists.
C24_RefusesToOverwrite ==
    /\ h_pc # "idle" /\ CalledOnWrittenFile =>
          /\ NothingDone
          /\ h_pc \in {"hmmscan", "raised"}
          /\ h_pc = "raised" => h_exc = "FileExistsError"
    /\ h_pc \notin {"idle", "hmmscan"} /\ ~CalledOnWrittenFile => Proceeded
    /\ h_pc = "returned" =>
          /\ proc = <<0>>
          /\ fs.outfpath # "missing"
          /\ h_result = Outfpath
    /\ h_result # "None" => h_pc = "returned"

\* A parallel call on a written outfpath without force has ended in
\* FileExistsError with the disk untouched.
C24_Witness ==
    /\ h_pc = "raised"
    /\ h_exc = "FileExistsError"
    /\ args.parallel
    /\ ~args.force
    /\ fs_before.outfpath = "full"
    /\ fs = fs_before
    /\ cmd = <<>>
====
